---------------------------- MODULE Spec2Model ----------------------------
(***************************************************************************)
(* A model of src/src/app.js: the shared budget client (the React          *)
(* component App with its AddItemForm and ItemList children) of several    *)
(* sessions, together with the Firestore collection and the Firebase       *)
(* authentication service they talk to.                                    *)
(*                                                                         *)
(* Amounts are counted in hundredths (the form's step is 0.01), so that    *)
(* 150.50 is 15050.  A document of the collection is [id, data]; an item   *)
(* of a client's snapshot is the flattened record {id, ...data}.           *)
(***************************************************************************)
EXTENDS Integers, Sequences, FiniteSets, TLC

\* ---------------------------------------------------------------- bounds
\* Form submissions and delete clicks, over all sessions.
MaxOps == 2
\* Failures the environment injects (a rejected write, a failed sign-in, a
\* failed change stream and, under SpecAuthChange, a dropped user), over
\* all sessions.
MaxFaults == 1

\* ---------------------------------------------------------------- values
Clients == {"s1", "s2"}

Types == {"income", "expense"}

\* Texts typed into the description field.
DescriptionInputs == {"", "Paycheck"}

\* Texts typed into the amount field (type="number"), as character
\* sequences: "", "0", "-5", "0.00" and "100".
AmountInputs ==
    { <<>>,
      <<"0">>,
      <<"-", "5">>,
      <<"0", ".", "0", "0">>,
      <<"1", "0", "0">> }

NoUser == <<>>
NoError == "null"

ErrConfig == "Firebase configuration is missing. Make sure it's set in Netlify."
ErrConnect == "Could not connect to the database."
ErrAuth == "Failed to authenticate. Please refresh the page."
ErrFetch == "Failed to fetch budget items."
ErrAdd == "Could not add the item."
ErrDelete == "Could not delete the item."

VARIABLES
    config,      \* process.env.REACT_APP_FIREBASE_CONFIG of the build
    store,       \* the documents of the collection budget-items
    version,     \* how many times the collection has changed
    clock,       \* the server's clock (the last createdAt it assigned)
    sent,        \* addDoc and deleteDoc calls so far
    rejections,  \* submissions the form has refused so far
    faults,      \* injected failures so far
    signIns,     \* per session: users the service has created for it
    phase,       \* per session: "new" (rendered, effects not yet run),
                 \* "mounted" or "unmounted"
    db,          \* useState db (TRUE when set)
    userId,      \* useState userId
    isAuthReady, \* useState isAuthReady
    items,       \* useState items
    loading,     \* useState loading
    error,       \* useState error
    memo,        \* the useMemo cell: [deps, value]
    sub,         \* the onSnapshot listener of the data effect, with the
                 \* numbers of listeners opened and closed so far
    authUser,    \* the authentication service's current user
    authNotify,  \* an auth state change waits to be handed to the listener
    signIn,      \* an awaited signInAnonymously call is pending
    inflight     \* addDoc / deleteDoc calls awaiting their promise

vars == << config, store, version, clock, sent, rejections, faults, signIns,
           phase, db, userId, isAuthReady, items, loading, error, memo, sub,
           authUser, authNotify, signIn, inflight >>

storeVars == << store, version, clock >>
authVars == << authUser, authNotify, signIn, signIns >>
countVars == << sent, rejections >>
viewVars == << items, memo >>


\* ------------------------------------------------- the add form's input
Digit == {"0", "1", "2", "3", "4", "5", "6", "7", "8", "9"}

DigitOf(ch) ==
    CASE ch = "0" -> 0 [] ch = "1" -> 1 [] ch = "2" -> 2 [] ch = "3" -> 3
      [] ch = "4" -> 4 [] ch = "5" -> 5 [] ch = "6" -> 6 [] ch = "7" -> 7
      [] ch = "8" -> 8 [] ch = "9" -> 9

IsDigits(s) == \A i \in 1..Len(s) : s[i] \in Digit

\* The characters of s before (after) its first ".", all of s (none) if it
\* has no ".".
DotAt(s) ==
    IF \E i \in 1..Len(s) : s[i] = "."
    THEN CHOOSE i \in 1..Len(s) : s[i] = "." /\ \A j \in 1..(i - 1) : s[j] # "."
    ELSE Len(s) + 1

Whole(s) == SubSeq(s, 1, DotAt(s) - 1)
Fraction(s) == SubSeq(s, DotAt(s) + 1, Len(s))

Unsigned(s) == IF Len(s) > 0 /\ s[1] = "-" THEN Tail(s) ELSE s

\* A decimal numeral: an optional "-", digits, and optionally "." and
\* digits, with a digit somewhere.
IsNumeral(s) ==
    /\ IsDigits(Whole(Unsigned(s)))
    /\ IsDigits(Fraction(Unsigned(s)))
    /\ Len(Whole(Unsigned(s))) + Len(Fraction(Unsigned(s))) > 0

RECURSIVE IntOf(_)
IntOf(s) == IF s = <<>> THEN 0
            ELSE 10 * IntOf(SubSeq(s, 1, Len(s) - 1)) + DigitOf(s[Len(s)])

\* The first two digits of a fraction, in hundredths.
HundredthsOf(f) ==
    IF Len(f) = 0 THEN 0
    ELSE IF Len(f) = 1 THEN 10 * DigitOf(f[1])
    ELSE 10 * DigitOf(f[1]) + DigitOf(f[2])

NaN == "NaN"

\* parseFloat(amount), in hundredths.
ParseFloat(s) ==
    IF ~IsNumeral(s) THEN NaN
    ELSE LET u == Unsigned(s)
             v == 100 * IntOf(Whole(u)) + HundredthsOf(Fraction(u))
         IN  IF Len(s) > 0 /\ s[1] = "-" THEN 0 - v ELSE v

\* ConstraintsMet without the amount's min.
ConstraintsMetNoMin(description, amount) ==
    /\ description # ""
    /\ amount # <<>>
    /\ IsNumeral(amount)
    /\ Len(Fraction(Unsigned(amount))) <= 2

\* The browser's constraint validation of the form's two inputs, which
\* precedes the submit event: both are required, and the amount is a
\* number input with min="0.01" and step="0.01".
ConstraintsMet(description, amount) ==
    /\ description # ""
    /\ amount # <<>>
    /\ IsNumeral(amount)
    /\ Len(Fraction(Unsigned(amount))) <= 2
    /\ ParseFloat(amount) >= 1

\* handleSubmit's own test: !description || !amount.
FieldsFilled(description, amount) == description # "" /\ amount # <<>>

\* The object handleSubmit hands to onAddItem.
NewItem(description, amount, type) ==
    [description |-> description, amount |-> ParseFloat(amount), type |-> type]


\* --------------------------------------------------------- the collection
\* The document addDoc writes: the item, serverTimestamp() and the author.
NewDoc(id, item, t, author) ==
    [id |-> id,
     data |-> [description |-> item.description, amount |-> item.amount,
               type |-> item.type, createdAt |-> t, authorId |-> author]]

\* Precedes in ascending order.
PrecedesAscending(d, e) ==
    \/ d.data.createdAt < e.data.createdAt
    \/ d.data.createdAt = e.data.createdAt /\ d.id < e.id

\* orderBy('createdAt', 'desc'): d comes before e.  Documents with the same
\* createdAt follow the store's order of document names.
Precedes(d, e) ==
    \/ d.data.createdAt > e.data.createdAt
    \/ d.data.createdAt = e.data.createdAt /\ d.id > e.id

RECURSIVE Ordered(_)
Ordered(S) ==
    IF S = {} THEN << >>
    ELSE LET first == CHOOSE d \in S : \A e \in S \ {d} : Precedes(d, e)
         IN  << first >> \o Ordered(S \ {first})

\* snapshot.docs of the query q.
QueryDocs(S) == Ordered(S)

\* doc => ({ id: doc.id, ...doc.data() })
ItemOf(d) ==
    [id |-> d.id, description |-> d.data.description, amount |-> d.data.amount,
     type |-> d.data.type, createdAt |-> d.data.createdAt,
     authorId |-> d.data.authorId]

\* snapshot.docs.map(...)
FetchedItems(docs) == [i \in 1..Len(docs) |-> ItemOf(docs[i])]

\* ------------------------------------------------------- the calculations
\* items.filter(item => item.type === type)
RECURSIVE FilterType(_, _)
FilterType(its, type) ==
    IF its = << >> THEN << >>
    ELSE IF Head(its).type = type
         THEN << Head(its) >> \o FilterType(Tail(its), type)
         ELSE FilterType(Tail(its), type)

\* its.reduce((sum, item) => sum + item.amount, 0)
RECURSIVE SumAmounts(_)
SumAmounts(its) ==
    IF its = << >> THEN 0
    ELSE SumAmounts(SubSeq(its, 1, Len(its) - 1)) + its[Len(its)].amount

IncomeItems(its) == FilterType(its, "income")

\* ExpenseItems without its filter.
ExpenseItemsUnfiltered(its) == its

ExpenseItems(its) == FilterType(its, "expense")

\* The function useMemo runs.
Calculations(its) ==
    LET incomeItems == IncomeItems(its)
        expenseItems == ExpenseItems(its)
        totalIncome == SumAmounts(incomeItems)
        totalExpenses == SumAmounts(expenseItems)
    IN  [totalIncome |-> totalIncome,
         totalExpenses |-> totalExpenses,
         balance |-> totalIncome - totalExpenses,
         incomeItems |-> incomeItems,
         expenseItems |-> expenseItems]

\* UseMemo with an empty dependency list: computed once, never again.
UseMemoOnce(cell, its) == cell

\* useMemo(..., [items]) at a render: the cell is recomputed when its
\* dependency has changed, and kept otherwise.
UseMemo(cell, its) ==
    IF cell.deps = its THEN cell
    ELSE [deps |-> its, value |-> Calculations(its)]

\* The ids ItemList renders a delete button for.
ListedIds(c) ==
    { memo[c].value.incomeItems[i].id :
          i \in 1..Len(memo[c].value.incomeItems) }
    \cup { memo[c].value.expenseItems[i].id :
          i \in 1..Len(memo[c].value.expenseItems) }

\* The render returns the error view alone when error is set; the forms
\* and the lists exist otherwise.
FormsRendered(c) == phase[c] # "unmounted" /\ error[c] = NoError

\* The submit button is disabled={loading}.
\* A submit button that is never disabled.
SubmitEnabledWhileLoading(c) == FormsRendered(c)

SubmitEnabled(c) == FormsRendered(c) /\ ~loading[c]

\* ----------------------------------------------------- the data effect
\* The guard of the effect: if (!db || !isAuthReady || !userId) return.
\* A guard that looks at the database connection only.
CanSubscribeWithoutUser(d, ready, uid) == d

CanSubscribe(d, ready, uid) == d /\ ready /\ uid # NoUser

\* The effect runs again when [db, isAuthReady, userId] has changed.
DepsChanged(c, d, ready, uid) ==
    << d, ready, uid >> # << db[c], isAuthReady[c], userId[c] >>

NoSub == [state |-> "none", seen |-> -1, opened |-> 0, closed |-> 0]

\* onSnapshot(q, ...): a new listener, which has delivered nothing yet.
Subscribe(s) ==
    [state |-> "live", seen |-> -1, opened |-> s.opened + 1, closed |-> s.closed]

\* Cleanup with no function returned by the effect: nothing is closed.
CleanupMissing(s) == s

\* The cleanup of the data effect, return () => unsubscribe(): it exists
\* when the effect's last run has subscribed, and closes that listener.
Cleanup(s) ==
    IF s.state = "none" THEN s
    ELSE [state |-> "none", seen |-> -1, opened |-> s.opened,
          closed |-> s.closed + 1]

\* The listener after the effect: a changed dependency first runs the
\* cleanup of the previous run (unsubscribe), then the effect, which
\* subscribes again when its guard lets it.
SubAfterEffect(c, d, ready, uid) ==
    IF ~DepsChanged(c, d, ready, uid) THEN sub[c]
    ELSE IF CanSubscribe(d, ready, uid) THEN Subscribe(Cleanup(sub[c]))
    ELSE Cleanup(sub[c])

\* loading after the effect, l being its value after the handler:
\* setLoading(true) when the effect subscribes.
LoadingAfterEffect(c, d, ready, uid, l) ==
    IF DepsChanged(c, d, ready, uid) /\ CanSubscribe(d, ready, uid)
    THEN TRUE
    ELSE l


\* ------------------------------------------------------------ the state
NoItem == [description |-> "", amount |-> 0, type |-> ""]

Init ==
    /\ config \in {"absent", "broken", "valid"}
    /\ store = {}
    /\ version = 0
    /\ clock = 0
    /\ sent = 0
    /\ rejections = 0
    /\ faults = 0
    /\ signIns = [c \in Clients |-> 0]
    /\ phase = [c \in Clients |-> "new"]
    /\ db = [c \in Clients |-> FALSE]
    /\ userId = [c \in Clients |-> NoUser]
    /\ isAuthReady = [c \in Clients |-> FALSE]
    /\ items = [c \in Clients |-> << >>]
    /\ loading = [c \in Clients |-> TRUE]
    /\ error = [c \in Clients |-> NoError]
    /\ memo = [c \in Clients |-> [deps |-> << >>, value |-> Calculations(<< >>)]]
    /\ sub = [c \in Clients |-> NoSub]
    /\ authUser = [c \in Clients |-> NoUser]
    /\ authNotify = [c \in Clients |-> FALSE]
    /\ signIn = [c \in Clients |-> FALSE]
    /\ inflight = [c \in Clients |-> {}]

\* ------------------------------------- initialization and authentication
\* The first effect, run once after the first render.
\* An init effect without the test of the configuration: it goes on to
\* initializeApp whatever the configuration is.
InitEffectWithoutConfigTest(c) ==
    /\ phase[c] = "new"
    /\ phase' = [phase EXCEPT ![c] = "mounted"]
    /\ IF config = "broken"
       THEN /\ error' = [error EXCEPT ![c] = ErrConnect]
            /\ loading' = [loading EXCEPT ![c] = FALSE]
            /\ UNCHANGED << db, authNotify, sub >>
       ELSE /\ db' = [db EXCEPT ![c] = TRUE]
            /\ authNotify' = [authNotify EXCEPT ![c] = TRUE]
            /\ sub' = [sub EXCEPT ![c] =
                         SubAfterEffect(c, TRUE, isAuthReady[c], userId[c])]
            /\ loading' = [loading EXCEPT ![c] =
                         LoadingAfterEffect(c, TRUE, isAuthReady[c], userId[c], @)]
            /\ UNCHANGED error
    /\ UNCHANGED << config, storeVars, countVars, faults, signIns, userId,
                    isAuthReady, viewVars, authUser, signIn, inflight >>

InitEffect(c) ==
    /\ phase[c] = "new"
    /\ phase' = [phase EXCEPT ![c] = "mounted"]
    /\ IF config = "absent"
       THEN /\ error' = [error EXCEPT ![c] = ErrConfig]
            /\ loading' = [loading EXCEPT ![c] = FALSE]
            /\ UNCHANGED << db, authNotify, sub >>
       ELSE IF config = "broken"
       THEN \* initializeApp / getFirestore / getAuth throws
            /\ error' = [error EXCEPT ![c] = ErrConnect]
            /\ loading' = [loading EXCEPT ![c] = FALSE]
            /\ UNCHANGED << db, authNotify, sub >>
       ELSE \* setDb, setAuth, onAuthStateChanged: the listener is told the
            \* current user; the data effect runs and returns at its guard
            /\ db' = [db EXCEPT ![c] = TRUE]
            /\ authNotify' = [authNotify EXCEPT ![c] = TRUE]
            /\ sub' = [sub EXCEPT ![c] =
                         SubAfterEffect(c, TRUE, isAuthReady[c], userId[c])]
            /\ loading' = [loading EXCEPT ![c] =
                         LoadingAfterEffect(c, TRUE, isAuthReady[c], userId[c], @)]
            /\ UNCHANGED error
    /\ UNCHANGED << config, storeVars, countVars, faults, signIns, userId,
                    isAuthReady, viewVars, authUser, signIn, inflight >>

\* The callback of onAuthStateChanged, up to its await or its end.
AuthStateChanged(c) ==
    /\ phase[c] = "mounted"
    /\ authNotify[c]
    /\ authNotify' = [authNotify EXCEPT ![c] = FALSE]
    /\ IF authUser[c] # NoUser
       THEN \* setUserId(user.uid); setIsAuthReady(true)
            /\ userId' = [userId EXCEPT ![c] = authUser[c]]
            /\ isAuthReady' = [isAuthReady EXCEPT ![c] = TRUE]
            /\ sub' = [sub EXCEPT ![c] =
                         SubAfterEffect(c, db[c], TRUE, authUser[c])]
            /\ loading' = [loading EXCEPT ![c] =
                         LoadingAfterEffect(c, db[c], TRUE, authUser[c], @)]
            /\ UNCHANGED signIn
       ELSE \* await signInAnonymously(authInstance)
            /\ signIn' = [signIn EXCEPT ![c] = TRUE]
            /\ UNCHANGED << userId, isAuthReady, sub, loading >>
    /\ UNCHANGED << config, storeVars, countVars, faults, signIns, phase, db,
                    viewVars, error, authUser, inflight >>

\* signInAnonymously succeeds: the service has a new user, of which the
\* listener will be told, and the callback goes on to setIsAuthReady(true).
SignInResolved(c) ==
    /\ phase[c] = "mounted"
    /\ signIn[c]
    /\ signIn' = [signIn EXCEPT ![c] = FALSE]
    /\ signIns' = [signIns EXCEPT ![c] = @ + 1]
    /\ authUser' = [authUser EXCEPT ![c] = << c, signIns[c] + 1 >>]
    /\ authNotify' = [authNotify EXCEPT ![c] = TRUE]
    /\ isAuthReady' = [isAuthReady EXCEPT ![c] = TRUE]
    /\ sub' = [sub EXCEPT ![c] = SubAfterEffect(c, db[c], TRUE, userId[c])]
    /\ loading' = [loading EXCEPT ![c] =
                     LoadingAfterEffect(c, db[c], TRUE, userId[c], @)]
    /\ UNCHANGED << config, storeVars, countVars, faults, phase, db,
                    userId, viewVars, error, inflight >>

\* signInAnonymously fails: the catch reports it, then setIsAuthReady(true).
SignInRejected(c) ==
    /\ phase[c] = "mounted"
    /\ signIn[c]
    /\ faults < MaxFaults
    /\ faults' = faults + 1
    /\ signIn' = [signIn EXCEPT ![c] = FALSE]
    /\ error' = [error EXCEPT ![c] = ErrAuth]
    /\ isAuthReady' = [isAuthReady EXCEPT ![c] = TRUE]
    /\ sub' = [sub EXCEPT ![c] = SubAfterEffect(c, db[c], TRUE, userId[c])]
    /\ loading' = [loading EXCEPT ![c] =
                     LoadingAfterEffect(c, db[c], TRUE, userId[c], @)]
    /\ UNCHANGED << config, storeVars, countVars, signIns, phase, db, userId,
                    viewVars, authUser, authNotify, inflight >>

\* The authentication service drops the session's user (the account is
\* removed or its token revoked); the listener will be told.
SignedOut(c) ==
    /\ phase[c] = "mounted"
    /\ authUser[c] # NoUser
    /\ ~signIn[c]
    /\ faults < MaxFaults
    /\ faults' = faults + 1
    /\ authUser' = [authUser EXCEPT ![c] = NoUser]
    /\ authNotify' = [authNotify EXCEPT ![c] = TRUE]
    /\ UNCHANGED << config, storeVars, countVars, signIns, phase, db, userId,
                    isAuthReady, viewVars, loading, error, sub, signIn,
                    inflight >>

\* ------------------------------------------------------ the data effect
\* SnapshotDelivered of a one-time read: only the first state is fetched.
SnapshotDeliveredOnce(c) ==
    /\ phase[c] = "mounted"
    /\ sub[c].state = "live"
    /\ sub[c].seen = -1
    /\ items' = [items EXCEPT ![c] = FetchedItems(QueryDocs(store))]
    /\ loading' = [loading EXCEPT ![c] = FALSE]
    /\ memo' = [memo EXCEPT ![c] = UseMemo(@, items'[c])]
    /\ sub' = [sub EXCEPT ![c].seen = version]
    /\ UNCHANGED << config, storeVars, countVars, faults, phase, db, userId,
                    isAuthReady, error, authVars, inflight >>

\* The success callback of onSnapshot, with the collection's current
\* state; the render that follows recomputes the memo cell.
\* A success callback that keeps its items when the snapshot delivered is
\* shorter than they are.
SnapshotDeliveredKeepsRemoved(c) ==
    /\ phase[c] = "mounted"
    /\ sub[c].state = "live"
    /\ sub[c].seen < version
    /\ items' = [items EXCEPT ![c] =
                    IF Len(FetchedItems(QueryDocs(store))) < Len(@)
                    THEN @ ELSE FetchedItems(QueryDocs(store))]
    /\ loading' = [loading EXCEPT ![c] = FALSE]
    /\ memo' = [memo EXCEPT ![c] = UseMemo(@, items'[c])]
    /\ sub' = [sub EXCEPT ![c].seen = version]
    /\ UNCHANGED << config, storeVars, countVars, faults, phase, db, userId,
                    isAuthReady, error, authVars, inflight >>

\* A success callback that also calls setError(null).
SnapshotDeliveredClearsError(c) ==
    /\ phase[c] = "mounted"
    /\ sub[c].state = "live"
    /\ sub[c].seen < version
    /\ items' = [items EXCEPT ![c] = FetchedItems(QueryDocs(store))]
    /\ loading' = [loading EXCEPT ![c] = FALSE]
    /\ error' = [error EXCEPT ![c] = NoError]
    /\ memo' = [memo EXCEPT ![c] = UseMemo(@, items'[c])]
    /\ sub' = [sub EXCEPT ![c].seen = version]
    /\ UNCHANGED << config, storeVars, countVars, faults, phase, db, userId,
                    isAuthReady, authVars, inflight >>

SnapshotDelivered(c) ==
    /\ phase[c] = "mounted"
    /\ sub[c].state = "live"
    /\ sub[c].seen < version
    /\ items' = [items EXCEPT ![c] = FetchedItems(QueryDocs(store))]
    /\ loading' = [loading EXCEPT ![c] = FALSE]
    /\ memo' = [memo EXCEPT ![c] = UseMemo(@, items'[c])]
    /\ sub' = [sub EXCEPT ![c].seen = version]
    /\ UNCHANGED << config, storeVars, countVars, faults, phase, db, userId,
                    isAuthReady, error, authVars, inflight >>

\* The error callback of onSnapshot; the listener is then dead.
\* The error callback subscribing anew after reporting the failure.
SnapshotFailedRetries(c) ==
    /\ phase[c] = "mounted"
    /\ sub[c].state = "live"
    /\ faults < MaxFaults
    /\ faults' = faults + 1
    /\ error' = [error EXCEPT ![c] = ErrFetch]
    /\ loading' = [loading EXCEPT ![c] = FALSE]
    /\ sub' = [sub EXCEPT ![c] = Subscribe(Cleanup(@))]
    /\ UNCHANGED << config, storeVars, countVars, phase, db, userId,
                    isAuthReady, viewVars, authVars, inflight >>

SnapshotFailed(c) ==
    /\ phase[c] = "mounted"
    /\ sub[c].state = "live"
    /\ faults < MaxFaults
    /\ faults' = faults + 1
    /\ error' = [error EXCEPT ![c] = ErrFetch]
    /\ loading' = [loading EXCEPT ![c] = FALSE]
    /\ sub' = [sub EXCEPT ![c].state = "failed"]
    /\ UNCHANGED << config, storeVars, countVars, phase, db, userId,
                    isAuthReady, viewVars, authVars, inflight >>


\* ------------------------------------------------------- the mutations
AddCall(seq, item, author) ==
    [seq |-> seq, kind |-> "add", item |-> item, author |-> author,
     id |-> 0, status |-> "sent"]

DeleteCall(seq, id) ==
    [seq |-> seq, kind |-> "delete", item |-> NoItem, author |-> NoUser,
     id |-> id, status |-> "sent"]

\* What the user has done so far: submissions and delete clicks.
Gestures == sent + rejections

\* handleAddItem up to its await: addDoc is called with the item, the
\* server's timestamp and the author.
HandleAddItem(c, item) ==
    IF ~db[c]
    THEN UNCHANGED << loading, inflight, sent >>
    ELSE /\ loading' = [loading EXCEPT ![c] = TRUE]
         /\ sent' = sent + 1
         /\ inflight' = [inflight EXCEPT ![c] =
                           @ \cup {AddCall(sent + 1, item, userId[c])}]

\* The user submits one of the two add forms: the browser validates the
\* inputs, and only then the submit event reaches handleSubmit.
Submit(c, type, description, amount) ==
    /\ SubmitEnabled(c)
    /\ Gestures < MaxOps
    /\ IF ~ConstraintsMet(description, amount)
       THEN \* the browser names the invalid field; no submit event
            /\ rejections' = rejections + 1
            /\ UNCHANGED << loading, inflight, sent >>
       ELSE IF ~FieldsFilled(description, amount)
       THEN \* alert("Please fill out both description and amount.")
            /\ rejections' = rejections + 1
            /\ UNCHANGED << loading, inflight, sent >>
       ELSE /\ HandleAddItem(c, NewItem(description, amount, type))
            /\ UNCHANGED rejections
    /\ UNCHANGED << config, storeVars, faults, phase, db, userId,
                    isAuthReady, viewVars, error, sub, authVars >>

\* handleDeleteItem up to its await.
HandleDeleteItem(c, id) ==
    IF ~db[c]
    THEN UNCHANGED << inflight, sent >>
    ELSE /\ sent' = sent + 1
         /\ inflight' = [inflight EXCEPT ![c] =
                           @ \cup {DeleteCall(sent + 1, id)}]

\* The user clicks the delete button of a listed item.
DeleteClicked(c, id) ==
    /\ FormsRendered(c)
    /\ id \in ListedIds(c)
    /\ Gestures < MaxOps
    /\ HandleDeleteItem(c, id)
    /\ UNCHANGED << config, storeVars, rejections, faults, phase, db, userId,
                    isAuthReady, viewVars, loading, error, sub, authVars >>

Settle(op, outcome) == [op EXCEPT !.status = outcome]

\* The timestamps the server may give the next document: its clock has
\* not moved since the last one, or it has.
ServerTimes == IF clock = 0 THEN {1} ELSE {clock, clock + 1}

\* The store applies an addDoc: the document exists from here on.
StoreInsert(c, op) ==
    /\ op \in inflight[c]
    /\ op.kind = "add"
    /\ op.status = "sent"
    /\ \E t \in ServerTimes :
          /\ store' = store \cup {NewDoc(op.seq, op.item, t, op.author)}
          /\ clock' = t
    /\ version' = version + 1
    /\ inflight' = [inflight EXCEPT ![c] = (@ \ {op}) \cup {Settle(op, "ok")}]
    /\ UNCHANGED << config, countVars, faults, phase, db, userId, isAuthReady,
                    viewVars, loading, error, sub, authVars >>

\* The store applies a deleteDoc; deleting a missing document succeeds.
\* A store that refuses to delete a document it does not hold.
StoreDeleteMissingFails(c, op) ==
    /\ op \in inflight[c]
    /\ op.kind = "delete"
    /\ op.status = "sent"
    /\ store' = {d \in store : d.id # op.id}
    /\ version' = IF store' # store THEN version + 1 ELSE version
    /\ inflight' = [inflight EXCEPT ![c] =
                      (@ \ {op}) \cup
                      {Settle(op, IF store' # store THEN "ok" ELSE "fail")}]
    /\ UNCHANGED << config, clock, countVars, faults, phase, db, userId,
                    isAuthReady, viewVars, loading, error, sub, authVars >>

StoreDelete(c, op) ==
    /\ op \in inflight[c]
    /\ op.kind = "delete"
    /\ op.status = "sent"
    /\ store' = {d \in store : d.id # op.id}
    /\ version' = IF store' # store THEN version + 1 ELSE version
    /\ inflight' = [inflight EXCEPT ![c] = (@ \ {op}) \cup {Settle(op, "ok")}]
    /\ UNCHANGED << config, clock, countVars, faults, phase, db, userId,
                    isAuthReady, viewVars, loading, error, sub, authVars >>

\* The write fails (network, permission): the collection is untouched.
StoreRejects(c, op) ==
    /\ op \in inflight[c]
    /\ op.status = "sent"
    /\ faults < MaxFaults
    /\ faults' = faults + 1
    /\ inflight' = [inflight EXCEPT ![c] = (@ \ {op}) \cup {Settle(op, "fail")}]
    /\ UNCHANGED << config, storeVars, countVars, phase, db, userId,
                    isAuthReady, viewVars, loading, error, sub, authVars >>

\* AddSettled with an optimistic update: a successful add puts its item
\* in front of the client's items itself.
AddSettledOptimistic(c, op) ==
    /\ op \in inflight[c]
    /\ op.kind = "add"
    /\ op.status \in {"ok", "fail"}
    /\ inflight' = [inflight EXCEPT ![c] = @ \ {op}]
    /\ error' = [error EXCEPT ![c] = IF op.status = "fail" THEN ErrAdd ELSE @]
    /\ loading' = [loading EXCEPT ![c] = FALSE]
    /\ items' = [items EXCEPT ![c] =
                   IF op.status = "ok"
                   THEN << ItemOf(NewDoc(op.seq, op.item, clock, op.author)) >> \o @
                   ELSE @]
    /\ memo' = [memo EXCEPT ![c] = UseMemo(@, items'[c])]
    /\ UNCHANGED << config, storeVars, countVars, faults, phase, db, userId,
                    isAuthReady, sub, authVars >>

\* handleAddItem after its await: the catch, then the finally.
AddSettled(c, op) ==
    /\ op \in inflight[c]
    /\ op.kind = "add"
    /\ op.status \in {"ok", "fail"}
    /\ inflight' = [inflight EXCEPT ![c] = @ \ {op}]
    /\ IF phase[c] = "unmounted"
       THEN \* the state of an unmounted component is not updated
            UNCHANGED << error, loading >>
       ELSE /\ error' = [error EXCEPT ![c] =
                           IF op.status = "fail" THEN ErrAdd ELSE @]
            /\ loading' = [loading EXCEPT ![c] = FALSE]
    /\ UNCHANGED << config, storeVars, countVars, faults, phase, db, userId,
                    isAuthReady, viewVars, sub, authVars >>

\* handleDeleteItem after its await: the catch.
\* A handler that takes the entry off the list itself once the call has
\* settled, whatever the outcome.
DeleteSettledRemoves(c, op) ==
    /\ op \in inflight[c]
    /\ op.kind = "delete"
    /\ op.status \in {"ok", "fail"}
    /\ inflight' = [inflight EXCEPT ![c] = @ \ {op}]
    /\ error' = [error EXCEPT ![c] =
                    IF op.status = "fail" THEN ErrDelete ELSE @]
    /\ items' = [items EXCEPT ![c] = SelectSeq(@, LAMBDA e : e.id # op.id)]
    /\ memo' = [memo EXCEPT ![c] = UseMemo(@, items'[c])]
    /\ UNCHANGED << config, storeVars, countVars, faults, phase, db, userId,
                    isAuthReady, loading, sub, authVars >>

DeleteSettled(c, op) ==
    /\ op \in inflight[c]
    /\ op.kind = "delete"
    /\ op.status \in {"ok", "fail"}
    /\ inflight' = [inflight EXCEPT ![c] = @ \ {op}]
    /\ IF phase[c] = "unmounted"
       THEN UNCHANGED error
       ELSE error' = [error EXCEPT ![c] =
                        IF op.status = "fail" THEN ErrDelete ELSE @]
    /\ UNCHANGED << config, storeVars, countVars, faults, phase, db, userId,
                    isAuthReady, viewVars, loading, sub, authVars >>

\* An unmount that also drops the calls the client is awaiting.
UnmountCancels(c) ==
    /\ phase[c] = "mounted"
    /\ phase' = [phase EXCEPT ![c] = "unmounted"]
    /\ sub' = [sub EXCEPT ![c] = Cleanup(@)]
    /\ authNotify' = [authNotify EXCEPT ![c] = FALSE]
    /\ signIn' = [signIn EXCEPT ![c] = FALSE]
    /\ inflight' = [inflight EXCEPT ![c] = {}]
    /\ UNCHANGED << config, storeVars, countVars, faults, signIns, db, userId,
                    isAuthReady, viewVars, loading, error, authUser >>

\* The component is unmounted: the cleanups of the two effects close the
\* auth listener and the snapshot listener.  Calls in flight stay so.
Unmount(c) ==
    /\ phase[c] = "mounted"
    /\ phase' = [phase EXCEPT ![c] = "unmounted"]
    /\ sub' = [sub EXCEPT ![c] = Cleanup(@)]
    /\ authNotify' = [authNotify EXCEPT ![c] = FALSE]
    /\ signIn' = [signIn EXCEPT ![c] = FALSE]
    /\ UNCHANGED << config, storeVars, countVars, faults, signIns, db, userId,
                    isAuthReady, viewVars, loading, error, authUser, inflight >>

Next ==
    \E c \in Clients :
       \/ InitEffect(c)
       \/ AuthStateChanged(c)
       \/ SignInResolved(c)
       \/ SignInRejected(c)
       \/ SnapshotDelivered(c)
       \/ SnapshotFailed(c)
       \/ \E type \in Types, description \in DescriptionInputs,
             amount \in AmountInputs : Submit(c, type, description, amount)
       \/ \E id \in ListedIds(c) : DeleteClicked(c, id)
       \/ \E op \in inflight[c] : StoreInsert(c, op)
       \/ \E op \in inflight[c] : StoreDelete(c, op)
       \/ \E op \in inflight[c] : StoreRejects(c, op)
       \/ \E op \in inflight[c] : AddSettled(c, op)
       \/ \E op \in inflight[c] : DeleteSettled(c, op)

\* The sessions while the authentication service keeps every user it has
\* signed in.
Spec == Init /\ [][Next]_vars

\* The sessions when the service may also drop a user: the session then
\* signs in again, under a new uid, and the data effect subscribes anew.
NextAuthChange == Next \/ \E c \in Clients : SignedOut(c)

SpecAuthChange == Init /\ [][NextAuthChange]_vars

\* An entry written to the collection by an earlier session.
EarlierDoc ==
    NewDoc(0, NewItem("Paycheck", <<"1", "0", "0">>, "income"), 1,
           <<"s0", 1>>)

\* The sessions start while the collection already holds an entry.
InitStocked ==
    /\ config = "valid"
    /\ store = {EarlierDoc}
    /\ version = 0
    /\ clock = EarlierDoc.data.createdAt
    /\ sent = 0
    /\ rejections = 0
    /\ faults = 0
    /\ signIns = [c \in Clients |-> 0]
    /\ phase = [c \in Clients |-> "new"]
    /\ db = [c \in Clients |-> FALSE]
    /\ userId = [c \in Clients |-> NoUser]
    /\ isAuthReady = [c \in Clients |-> FALSE]
    /\ items = [c \in Clients |-> << >>]
    /\ loading = [c \in Clients |-> TRUE]
    /\ error = [c \in Clients |-> NoError]
    /\ memo = [c \in Clients |-> [deps |-> << >>, value |-> Calculations(<< >>)]]
    /\ sub = [c \in Clients |-> NoSub]
    /\ authUser = [c \in Clients |-> NoUser]
    /\ authNotify = [c \in Clients |-> FALSE]
    /\ signIn = [c \in Clients |-> FALSE]
    /\ inflight = [c \in Clients |-> {}]

SpecStocked == InitStocked /\ [][Next]_vars

\* The sessions when, besides, a client may be unmounted.
NextLifecycle == NextAuthChange \/ \E c \in Clients : Unmount(c)

SpecLifecycle == Init /\ [][NextLifecycle]_vars


\* A step of the machinery: the event loop hands a pending callback over,
\* the store applies a write, the authentication service signs a user in.
Progress ==
    \E c \in Clients :
       \/ InitEffect(c)
       \/ AuthStateChanged(c)
       \/ SignInResolved(c)
       \/ SnapshotDelivered(c)
       \/ \E op \in inflight[c] : StoreInsert(c, op)
       \/ \E op \in inflight[c] : StoreDelete(c, op)
       \/ \E op \in inflight[c] : AddSettled(c, op)
       \/ \E op \in inflight[c] : DeleteSettled(c, op)

\* The machinery does not stop while it has a step to take.  What the
\* user does and what fails is under no obligation.
Fairness == WF_vars(Progress)

FairSpec == Spec /\ Fairness

FairLifecycle == SpecLifecycle /\ Fairness

\* ================================================================ claims
Subscribed(c) == sub[c].state = "live"

\* What the store would deliver now.
CurrentItems == FetchedItems(QueryDocs(store))

InFlight(c) == inflight[c] # {}

\* The sum of the amounts of the entries of a type, entry by entry.
RECURSIVE TotalOf(_, _)
TotalOf(its, type) ==
    IF its = << >> THEN 0
    ELSE (IF Head(its).type = type THEN Head(its).amount ELSE 0)
         + TotalOf(Tail(its), type)

Occurrences(its, e) == Cardinality({i \in 1..Len(its) : its[i] = e})

\* A subscribed client's items are the store's current entries, in the
\* store's order, and its totals are those of the store's entries.
Converged ==
    \A c \in Clients :
       Subscribed(c) =>
          /\ items[c] = CurrentItems
          /\ memo[c].value.totalIncome = TotalOf(CurrentItems, "income")
          /\ memo[c].value.totalExpenses = TotalOf(CurrentItems, "expense")

\* C1: whatever the sessions add and in whatever order the writes arrive,
\* under fair delivery every subscribed client's items are, from some point
\* on, the store's current entries, and all clients derive the same totals.
C1_Convergence == <>[]Converged

\* Two sessions have each added an income of 100, and both subscribed
\* clients show both entries and a total income of 200.
C1_Witness ==
    /\ \A c \in Clients : Subscribed(c) /\ items[c] = CurrentItems
                          /\ memo[c].value.totalIncome = 20000
    /\ Cardinality(store) = 2
    /\ \A d \in store : d.data.amount = 10000 /\ d.data.type = "income"
    /\ \E d, e \in store : d.data.authorId # e.data.authorId

\* C2: while a session has an add or a delete in flight, its loading flag
\* is true.
C2_LoadingWhileInFlight ==
    \A c \in Clients : InFlight(c) => loading[c]

\* C3: a session never has two mutations in flight, the submit button
\* being disabled while loading.
C3_AtMostOneInFlight ==
    \A c \in Clients : Cardinality(inflight[c]) <= 1

ValidEntry(description, amount) == description # "" /\ amount > 0

\* C4: no add with an empty description or an amount that is not above
\* zero is ever handed to the store, and no such entry exists.

C4_InvalidAddNeverSent ==
    /\ \A c \in Clients : \A op \in inflight[c] :
          op.kind = "add" => ValidEntry(op.item.description, op.item.amount)
    /\ \A d \in store : ValidEntry(d.data.description, d.data.amount)

\* The form has refused a submission, and the store holds an accepted one.
C4_Witness == rejections > 0 /\ store # {}

\* C5: a client's items change only in the step that handles a change
\* event of the store; no step of an add or a delete changes them.
C5_NoOptimisticUpdate ==
    [][\A c \in Clients : items'[c] # items[c] => SnapshotDelivered(c)]_vars

\* A session's add has been acknowledged and the entry is in the store,
\* while the session's items do not hold it yet.
C5_Witness ==
    \E c \in Clients :
       /\ Subscribed(c)
       /\ ~InFlight(c)
       /\ \E d \in store :
             /\ d.data.authorId = userId[c]
             /\ \A i \in 1..Len(items[c]) : items[c][i].id # d.id

\* C6: a client's items are in descending order of createdAt and hold no
\* entry twice; once the client has seen the store's latest state, they
\* hold every entry of the store.
C6_SortedSnapshot ==
    \A c \in Clients :
       /\ \A i, j \in 1..Len(items[c]) :
             i < j => /\ items[c][i].createdAt >= items[c][j].createdAt
                      /\ items[c][i].id # items[c][j].id
       /\ (Subscribed(c) /\ sub[c].seen = version) =>
             /\ Len(items[c]) = Cardinality(store)
             /\ \A d \in store : \E i \in 1..Len(items[c]) : items[c][i] = ItemOf(d)

\* A client shows two entries with the same createdAt.
C6_Witness ==
    \E c \in Clients :
       /\ Len(items[c]) = 2
       /\ items[c][1].createdAt = items[c][2].createdAt

\* C7: the aggregate a client shows is the one of its current items: the
\* totals are the sums by type, the balance is their difference, and the
\* aggregate of no items is {0, 0, 0, [], []}.
C7_AggregateOfCurrentItems ==
    \A c \in Clients :
       /\ memo[c].value.totalIncome = TotalOf(items[c], "income")
       /\ memo[c].value.totalExpenses = TotalOf(items[c], "expense")
       /\ memo[c].value.balance =
             memo[c].value.totalIncome - memo[c].value.totalExpenses
       /\ items[c] = << >> =>
             memo[c].value = [totalIncome |-> 0, totalExpenses |-> 0,
                              balance |-> 0, incomeItems |-> << >>,
                              expenseItems |-> << >>]

\* A client shows an income and an expense of 100 each: totals of 100 and
\* a balance of zero.
C7_Witness ==
    \E c \in Clients :
       /\ \E i \in 1..Len(items[c]) : items[c][i].type = "income"
       /\ \E i \in 1..Len(items[c]) : items[c][i].type = "expense"
       /\ memo[c].value.totalIncome = 10000
       /\ memo[c].value.totalExpenses = 10000
       /\ memo[c].value.balance = 0

\* C8: every entry of a client's items is in exactly one of incomeItems
\* and expenseItems, in incomeItems exactly when its type is income, and
\* the two hold nothing else.
C8_Partition ==
    \A c \in Clients :
       LET inc == memo[c].value.incomeItems
           exp == memo[c].value.expenseItems
       IN  /\ \A i \in 1..Len(items[c]) :
                 LET e == items[c][i]
                 IN  /\ Occurrences(inc, e) + Occurrences(exp, e) = 1
                     /\ Occurrences(inc, e) = 1 <=> e.type = "income"
           /\ Len(inc) + Len(exp) = Len(items[c])

\* A client shows entries of both types.
C8_Witness ==
    \E c \in Clients :
       /\ Len(memo[c].value.incomeItems) > 0
       /\ Len(memo[c].value.expenseItems) > 0

\* C9: while a client's current subscription has delivered nothing yet and
\* no error is reported, the client is loading.
C9_LoadingBeforeFirstSnapshot ==
    \A c \in Clients :
       (sub[c].seen = -1 /\ error[c] = NoError) => loading[c]

\* C10: once a rejected add has been reported and the loading flag is
\* cleared, the session can submit an add again.
C10_RetryAfterRejectedAdd ==
    \A c \in Clients :
       (error[c] = ErrAdd /\ ~loading[c]) => SubmitEnabled(c)

\* C11: the step that reports a failed change stream leaves the listener
\* dead and the items alone; from then on the error stays reported, the
\* items of the client change no more through that listener, and the client
\* has a live listener again only when its user id changes.
C11_FailedStreamIsTerminal ==
    [][\A c \in Clients :
          /\ (error'[c] = ErrFetch /\ error[c] # ErrFetch)
                => (sub'[c].state = "failed" /\ items'[c] = items[c])
          /\ sub[c].state = "failed"
                => /\ items'[c] = items[c]
                   /\ error'[c] # NoError
                   /\ sub'[c].state = "live" => userId'[c] # userId[c]]_vars

\* A client's stream has failed and the store has changed since: the
\* client keeps the items of its last snapshot.
C11_Witness ==
    \E c \in Clients :
       /\ sub[c].state = "failed"
       /\ error[c] = ErrFetch
       /\ sub[c].seen >= 0
       /\ sub[c].seen < version
       /\ items[c] # CurrentItems

\* C12: a delete the store has answered leaves no entry of its id in the
\* store, and none in the items of a subscriber that has seen the store's
\* latest state; a delete is reported as failed only when the store
\* rejected a call, never because the entry was already gone.
C12_DeleteIdempotent ==
    /\ \A c \in Clients : \A op \in inflight[c] :
          (op.kind = "delete" /\ op.status = "ok")
             => /\ \A d \in store : d.id # op.id
                /\ \A c2 \in Clients :
                      (Subscribed(c2) /\ sub[c2].seen = version)
                         => \A i \in 1..Len(items[c2]) :
                               items[c2][i].id # op.id
    /\ \A c \in Clients : error[c] = ErrDelete => faults > 0

\* The earlier entry has been deleted, and a second delete, of the entry
\* already gone, has succeeded as well; no client reports an error.
C12_Witness ==
    /\ store = {}
    /\ version = 1
    /\ sent = 2
    /\ \A c \in Clients : error[c] = NoError
    /\ \E c \in Clients :
          /\ \E op \in inflight[c] :
                op.seq = 2 /\ op.kind = "delete" /\ op.status = "ok"
          /\ Cardinality(inflight[c]) = 1
          /\ \A c2 \in Clients \ {c} : inflight[c2] = {}

\* C13: the step in which the store rejects a delete, and the step in which
\* the client learns of it, change neither the store nor any client's
\* items; an entry leaves the store only in a step in which a delete of its
\* id succeeds, and an entry still in the store stays in the items of every
\* client that holds it.
C13_RejectedDeleteChangesNothing ==
    [][/\ \A c \in Clients : \A op \in inflight[c] :
             (/\ op.kind = "delete"
              /\ \/ op.status = "sent" /\ Settle(op, "fail") \in inflight'[c]
                 \/ op.status = "fail" /\ op \notin inflight'[c])
                => (store' = store /\ items' = items)
       /\ \A d \in store :
             d \notin store'
                => \E c \in Clients : \E op \in inflight[c] :
                      /\ op.kind = "delete"
                      /\ op.id = d.id
                      /\ op.status = "sent"
                      /\ Settle(op, "ok") \in inflight'[c]
       /\ \A c \in Clients : \A i \in 1..Len(items[c]) :
             (\E d \in store' : d.id = items[c][i].id)
                => \E j \in 1..Len(items'[c]) :
                      items'[c][j] = items[c][i]]_vars

\* A client has been told that its delete failed; the entry is still in the
\* store and in the items of both clients.
C13_Witness ==
    \E c \in Clients :
       /\ error[c] = ErrDelete
       /\ inflight[c] = {}
       /\ store = {EarlierDoc}
       /\ \A c2 \in Clients :
             Subscribed(c2) /\ items[c2] = CurrentItems /\ Len(items[c2]) = 1

\* The session has no user id, or its sign-in has been refused.
NoIdentity(c) == userId[c] = NoUser \/ error[c] = ErrAuth

\* C14: while a session has no user id or its sign-in has been refused, it
\* sends no add and no delete; a session that has never had a user id has
\* no call in flight, and no entry of the store is without an author.
C14_NoMutationWithoutIdentity ==
    [][/\ \A c \in Clients :
             NoIdentity(c)
                => \A op \in inflight'[c] :
                      \E sentBefore \in inflight[c] : sentBefore.seq = op.seq
       /\ \A c \in Clients : userId[c] = NoUser => inflight[c] = {}
       /\ \A d \in store' : d.data.authorId # NoUser]_vars

\* A session's sign-in has been refused after its connection to the
\* database was made; it has sent nothing although a gesture is left and
\* the other session has written an entry.
C14_Witness ==
    \E c \in Clients :
       /\ error[c] = ErrAuth
       /\ db[c]
       /\ userId[c] = NoUser
       /\ inflight[c] = {}
       /\ Gestures < MaxOps
       /\ store # {}

C16_AbsentConfiguration ==
    config = "absent"
       => /\ \A c \in Clients :
                /\ phase[c] # "new" => (error[c] = ErrConfig /\ ~loading[c])
                /\ ~db[c]
                /\ ~authNotify[c] /\ ~signIn[c]
                /\ sub[c] = NoSub
                /\ items[c] = << >>
                /\ inflight[c] = {}
          /\ sent = 0
          /\ store = {}

\* Both clients have started without a configuration and report it.
C16_Witness ==
    /\ config = "absent"
    /\ \A c \in Clients : phase[c] = "mounted" /\ error[c] = ErrConfig

\* C17: the states of the store are numbered in the order they arise, and
\* within one listener the number of the state shown never decreases: the
\* items change only when a later state is delivered, and are then the
\* entries of the store's latest state, whatever states lie in between.
C17_MonotonicDelivery ==
    [][/\ version' >= version
       /\ \A c \in Clients :
             (/\ sub[c].state = "live"
              /\ sub'[c].state = "live"
              /\ sub'[c].opened = sub[c].opened)
                => /\ sub'[c].seen >= sub[c].seen
                   /\ sub'[c].seen = sub[c].seen => items'[c] = items[c]
                   /\ sub'[c].seen > sub[c].seen
                         => /\ sub'[c].seen = version'
                            /\ items'[c] = FetchedItems(QueryDocs(store'))]_vars

\* One client shows the second state of the store; the other still shows
\* the state before the first change, and will be given the second state
\* without the first.
C17_Witness ==
    \E c1, c2 \in Clients :
       /\ Subscribed(c1) /\ Subscribed(c2)
       /\ version = 2
       /\ sub[c1].seen = version
       /\ sub[c2].seen = 0

\* The listeners a client has opened and not closed.
OpenListeners(c) == sub[c].opened - sub[c].closed

\* C18: after every step a client has closed each listener it opened except
\* the one it holds, so at most one is open, and none once it is unmounted;
\* a listener is opened only in a step that leaves exactly the new one
\* open; once a client is unmounted its items, loading flag and error
\* change no more.
C18_ReleasedExactlyOnce ==
    [][\A c \in Clients :
          /\ sub'[c].closed <= sub'[c].opened
          /\ sub'[c].opened - sub'[c].closed
                = (IF sub'[c].state = "none" THEN 0 ELSE 1)
          /\ sub'[c].opened > sub[c].opened
                => (sub'[c].closed = sub[c].opened /\ sub'[c].seen = -1)
          /\ phase'[c] = "unmounted" => sub'[c].closed = sub'[c].opened
          /\ phase[c] = "unmounted"
                => /\ items'[c] = items[c]
                   /\ loading'[c] = loading[c]
                   /\ error'[c] = error[c]
                   /\ sub'[c] = sub[c]]_vars

\* One client has been given a new user id and holds its second listener,
\* the first one closed; the other client has been unmounted with its
\* listener closed, and the store has changed since.
C18_Witness ==
    \E c1, c2 \in Clients :
       /\ sub[c1].state = "live"
       /\ sub[c1].opened = 2
       /\ OpenListeners(c1) = 1
       /\ phase[c2] = "unmounted"
       /\ sub[c2].opened = 1
       /\ OpenListeners(c2) = 0
       /\ version > 0

\* C19: every call sent is answered and settled, so that in the end no
\* client awaits one; a step that closes a client's listener leaves the
\* calls in flight as they are; and the step that settles an add of a
\* mounted client clears its loading flag, whatever its listener's state.
C19_MutationsComplete ==
    /\ <>[](\A c \in Clients : inflight[c] = {})
    /\ [][\A c \in Clients :
            /\ sub'[c].closed > sub[c].closed => inflight' = inflight
            /\ \A op \in inflight[c] :
                  (/\ op.kind = "add"
                   /\ \A left \in inflight'[c] : left.seq # op.seq
                   /\ phase[c] = "mounted")
                     => ~loading'[c]]_vars

\* A client was unmounted, and its listener closed, while its add was in
\* flight; the store has accepted the add since.
C19_Witness ==
    \E c \in Clients :
       /\ phase[c] = "unmounted"
       /\ sub[c].closed = 1
       /\ \E op \in inflight[c] : op.kind = "add" /\ op.status = "ok"

\* C20: no step takes a client's error from a message back to null, so the
\* forms are never rendered again, whichever of the configuration, the
\* sign-in, the listener, an add or a delete set the error.
C20_ErrorIsAbsorbing ==
    [][\A c \in Clients :
          error[c] # NoError
             => (error'[c] # NoError /\ ~SubmitEnabled(c)')]_vars

\* A client whose add was rejected still holds a live listener and shows,
\* behind the error, the store's latest state with the entry another
\* session added after it.
C20_Witness ==
    \E c \in Clients :
       /\ error[c] = ErrAdd
       /\ inflight[c] = {}
       /\ Subscribed(c)
       /\ sub[c].seen = version
       /\ sent = MaxOps
       /\ \E i \in 1..Len(items[c]) : items[c][i].id = sent

=============================================================================
